---- MODULE Spec2Model ----
(***************************************************************************)
(* mysterio-cli: layered configuration with a remote secret store.         *)
(* The local store is the configuration directory (one JSON document per   *)
(* environment); the remote store is AWS Secrets Manager (one secret per   *)
(* "<packageName>/<environment>").  One invocation of a command runs at a  *)
(* time; pc is its position, one label per await of the handler.           *)
(***************************************************************************)
EXTENDS Integers, Sequences, FiniteSets, TLC

\* ---------------------------------------------------------------- bounds
MaxOps == 2

\* invocations of the first process while a second one runs
MaxRaceOps == 1

\* ------------------------------------------------------------- constants
MinRecoveryDays == 7
MaxRecoveryDays == 30
DefaultRecoveryDays == 7

\* ------------------------------------------------------------ data model
Envs == {"default", "dev"}

\* recoveryDays as typed by the caller: absent ({}) or one integer
DayInputs == {6, 7, 30, 31}
DaysOpt == {{}} \cup {{d} : d \in DayInputs}

\* what the user can type at the "Recovery window in days" prompt
PromptInputs == {6, 7, 15, 31}

PkgNames == {"", "app"}

EmptyDoc == [k \in {} |-> ""]

Doc1(k, v) == [j \in {k} |-> v]

\* { ...a, ...b }: the keys of both, b's value on collision
Spread(a, b) ==
  [k \in (DOMAIN a) \cup (DOMAIN b) |-> IF k \in DOMAIN b THEN b[k] ELSE a[k]]

\* `${packageName}/${environment}`
SecretName_NoEnv(packageName, environment) == packageName \o "/"

SecretName(packageName, environment) == packageName \o "/" \o environment

SecretNames == {SecretName(p, e) : p \in PkgNames \ {""}, e \in Envs}

\* a secret name nobody has created yet
NoSecret == [state |-> "ABSENT", payload |-> EmptyDoc, version |-> 0, deadline |-> {}]

\* failures any remote request can end in, whatever the secret's state
Faults == {"CredentialsProviderError", "InternalServiceError"}

VARIABLES
  config,      \* rc configuration: packageName
  local,       \* configDir: environment name -> document (the files present)
  remote,      \* Secrets Manager: environment of the secret -> record
  pc,          \* position of the running invocation, "idle" when none
  cmd,         \* the entry point that was invoked
  opts,        \* the options of the running awsCommand / createSecret / envCommand
  frame,       \* local variables of the running handler
  result,      \* how the invocation ended: "none", "ok", "cancelled", "error"
  thrown,      \* the error thrown to the caller ("" when none)
  calls,       \* the prompts and remote requests of this invocation, in order
  local0,      \* local store when the invocation started
  remote0,     \* remote store when the invocation started
  nops,        \* invocations started so far
  peer         \* a second process running setConfig on the same stores

vars == <<config, local, remote, pc, cmd, opts, frame, result, thrown, calls,
          local0, remote0, nops, peer>>

\* ------------------------------------------------- Secrets Manager replies
\* the reply of the store to each request, by the state of the addressed secret
GetReply(s) ==
  CASE s.state = "ACTIVE" -> "ok"
    [] s.state = "PENDING_DELETION" -> "InvalidRequestException"
    [] OTHER -> "ResourceNotFoundException"

CreateReply(s) ==
  CASE s.state = "ACTIVE" -> "ResourceExistsException"
    [] s.state = "PENDING_DELETION" -> "InvalidRequestException"
    [] OTHER -> "ok"

UpdateReply(s) ==
  CASE s.state = "ACTIVE" -> "ok"
    [] s.state = "PENDING_DELETION" -> "InvalidRequestException"
    [] OTHER -> "ResourceNotFoundException"

DeleteReply(s) ==
  CASE s.state = "ACTIVE" -> "ok"
    [] s.state = "PENDING_DELETION" -> "InvalidRequestException"
    [] OTHER -> "ResourceNotFoundException"

\* the secret after a successful CreateSecret / UpdateSecret / DeleteSecret
Created(s, payload) ==
  [state |-> "ACTIVE", payload |-> payload, version |-> s.version + 1, deadline |-> {}]

Updated(s, payload) ==
  [s EXCEPT !.payload = payload, !.version = s.version + 1]

Deleted(s, params) ==
  IF params.ForceDeleteWithoutRecovery
    THEN [s EXCEPT !.state = "DELETED", !.deadline = {}]
    ELSE [s EXCEPT !.state = "PENDING_DELETION", !.deadline = params.RecoveryWindowInDays]

\* response.DeletionDate of a successful DeleteSecret
DeletionDate(params) ==
  IF params.ForceDeleteWithoutRecovery THEN {} ELSE params.RecoveryWindowInDays

\* -------------------------------------------------------- local store
FileExists(env) == env \in DOMAIN local

\* fs.writeFile(configFile, JSON.stringify(doc)): the whole document replaced
WriteFile(files, env, doc) ==
  [e \in (DOMAIN files) \cup {env} |-> IF e = env THEN doc ELSE files[e]]

\* fs.unlink(configFile)
Unlink(files, env) == [e \in (DOMAIN files) \ {env} |-> files[e]]

\* ------------------------------------------------------------- frames
NoParams == [SecretId |-> "", ForceDeleteWithoutRecovery |-> FALSE,
             RecoveryWindowInDays |-> {}]

NoFrame ==
  [secretName |-> "", configData |-> EmptyDoc, localConfig |-> EmptyDoc,
   awsConfig |-> EmptyDoc, merged |-> EmptyDoc, forceDelete |-> FALSE,
   recoveryWindow |-> {}, deleteParams |-> NoParams, DeletionDate |-> {},
   caught |-> "", envs |-> <<>>, status |-> <<>>, existingSecrets |-> EmptyDoc,
   result |-> <<>>, output |-> <<>>]

NoOpts ==
  [action |-> "", env |-> "", packageName |-> "", override |-> FALSE,
   prefer |-> "", force |-> FALSE, days |-> {}, confirm |-> TRUE,
   withAws |-> FALSE, from |-> "", initialValues |-> {},
   showAws |-> FALSE, key |-> "", value |-> "", target |-> "",
   source |-> "", format |-> ""]

Call(api, what) == <<api, what>>

\* the second process before it starts
NoPeer ==
  [pc |-> "idle", env |-> "", key |-> "", value |-> "", target |-> "",
   configData |-> EmptyDoc, existingSecrets |-> EmptyDoc, result |-> "none",
   thrown |-> ""]

\* ------------------------------------------------------------- Init
LocalDocs == {[x |-> "1"], [x |-> "1", y |-> "2"]}
RemoteDocs == {[y |-> "9"], [y |-> "9", z |-> "3"]}

\* default.json is there; dev.json is absent or one of LocalDocs
DefaultDoc == [environment |-> "base", x |-> "0"]

InitLocal ==
  {[e \in {"default"} |-> DefaultDoc]}
  \cup {[e \in Envs |-> IF e = "default" THEN DefaultDoc ELSE d] : d \in LocalDocs}

InitSecrets ==
  {NoSecret,
   [state |-> "PENDING_DELETION", payload |-> [y |-> "9"], version |-> 1, deadline |-> {7}]}
  \cup {[state |-> "ACTIVE", payload |-> d, version |-> 1, deadline |-> {}] : d \in RemoteDocs}

\* app/dev is in one of InitSecrets; app/default was never created
InitRemote ==
  {[n \in SecretNames |-> IF n = SecretName("app", "dev") THEN s ELSE NoSecret] :
     s \in InitSecrets}

Init ==
  /\ config \in {[packageName |-> p] : p \in PkgNames}
  /\ local \in InitLocal
  /\ remote \in InitRemote
  /\ pc = "idle"
  /\ cmd = ""
  /\ opts = NoOpts
  /\ frame = NoFrame
  /\ result = "none"
  /\ thrown = ""
  /\ calls = <<>>
  /\ local0 = local
  /\ remote0 = remote
  /\ nops = 0
  /\ peer = NoPeer

\* ------------------------------------------------------------ endings
\* the handler returns normally
Finish(how) ==
  /\ pc' = "done"
  /\ result' = how
  /\ thrown' = ""

\* the handler's catch logs the error and rethrows it
Throw(error) ==
  /\ pc' = "done"
  /\ result' = "error"
  /\ thrown' = error

Begin(command) ==
  /\ pc = "idle"
  /\ nops < MaxOps
  /\ nops' = nops + 1
  /\ cmd' = command
  /\ local0' = local
  /\ remote0' = remote
  /\ UNCHANGED <<config, local, remote, peer>>

\* the process exits; the next invocation starts from the stores as they are
Return ==
  /\ pc = "done"
  /\ pc' = "idle"
  /\ cmd' = ""
  /\ opts' = NoOpts
  /\ frame' = NoFrame
  /\ result' = "none"
  /\ thrown' = ""
  /\ calls' = <<>>
  /\ local0' = local
  /\ remote0' = remote
  /\ UNCHANGED <<config, local, remote, nops, peer>>

\* ------------------------------------------------------------ awsCommand
AwsActions == {"push", "pull", "sync", "delete"}
Prefers == {"", "local", "aws"}

\* the options each action looks at; the others keep their defaults
AwsOptions(action) ==
  {options \in
  {[NoOpts EXCEPT !.action = action, !.env = e, !.packageName = p,
                  !.override = o, !.prefer = pr, !.force = f, !.days = d,
                  !.confirm = c] :
     e \in Envs, p \in PkgNames,
     o \in IF action \in {"push", "pull"} THEN BOOLEAN ELSE {FALSE},
     pr \in IF action = "sync" THEN Prefers ELSE {""},
     f \in IF action = "delete" THEN BOOLEAN ELSE {FALSE},
     d \in IF action = "delete" THEN DaysOpt ELSE {{}},
     c \in IF action = "delete" THEN BOOLEAN ELSE {TRUE}} :
     \* force and days are not looked at when confirm is false
     options.confirm \/ (~options.force /\ options.days = {})}

\* options.packageName || config.packageName
PackageName(options) ==
  IF options.packageName # "" THEN options.packageName ELSE config.packageName

FirstLabel(action) ==
  CASE action = "push" -> "push_read"
    [] action = "pull" -> "pull_get"
    [] action = "sync" -> "sync_read"
    [] action = "delete" -> "del_entry"

\* awsCommand up to its switch: the package name check and the secret name
EnterAws(options) ==
  /\ opts' = options
  /\ IF PackageName(options) = ""
       THEN /\ Throw("Package name not provided")
            /\ frame' = NoFrame
       ELSE /\ pc' = FirstLabel(options.action)
            /\ frame' = [NoFrame EXCEPT
                 !.secretName = SecretName(PackageName(options), options.env)]
            /\ UNCHANGED <<result, thrown>>

AwsCommand ==
  \E action \in AwsActions : \E options \in AwsOptions(action) :
    \* a package option is given where the configuration has none
    /\ options.packageName = "" \/ config.packageName = ""
    /\ Begin("aws")
    /\ EnterAws(options)
    /\ calls' = <<>>

\* ---- push
\* a missing document read as empty, as sync does
PushRead_EmptyOnMissing ==
  /\ pc = "push_read"
  /\ calls' = Append(calls, Call("readFile", opts.env))
  /\ frame' = [frame EXCEPT !.configData =
                 IF FileExists(opts.env) THEN local[opts.env] ELSE EmptyDoc]
  /\ pc' = "push_create"
  /\ UNCHANGED <<result, thrown>>
  /\ UNCHANGED <<config, local, remote, cmd, opts, local0, remote0, nops, peer>>

PushRead ==
  /\ pc = "push_read"
  /\ calls' = Append(calls, Call("readFile", opts.env))
  /\ IF FileExists(opts.env)
       THEN /\ frame' = [frame EXCEPT !.configData = local[opts.env]]
            /\ pc' = "push_create"
            /\ UNCHANGED <<result, thrown>>
       ELSE /\ Throw("ENOENT")
            /\ UNCHANGED frame
  /\ UNCHANGED <<config, local, remote, cmd, opts, local0, remote0, nops, peer>>

\* an existing secret is taken for pushed: no update follows
PushCreate_NoUpdate ==
  /\ pc = "push_create"
  /\ calls' = Append(calls, Call("CreateSecret", frame.secretName))
  /\ \E reply \in {CreateReply(remote[frame.secretName])} \cup Faults :
       CASE reply = "ok" ->
              /\ remote' = [remote EXCEPT ![frame.secretName] = Created(@, frame.configData)]
              /\ Finish("ok")
         [] reply = "ResourceExistsException" ->
              /\ IF opts.override
                   THEN Finish("ok")
                   ELSE /\ pc' = "push_confirm"
                        /\ UNCHANGED <<result, thrown>>
              /\ UNCHANGED remote
         [] OTHER ->
              /\ Throw(reply)
              /\ UNCHANGED remote
  /\ UNCHANGED <<config, local, cmd, opts, frame, local0, remote0, nops, peer>>

PushCreate ==
  /\ pc = "push_create"
  /\ calls' = Append(calls, Call("CreateSecret", frame.secretName))
  /\ \E reply \in {CreateReply(remote[frame.secretName])} \cup Faults :
       CASE reply = "ok" ->
              /\ remote' = [remote EXCEPT ![frame.secretName] = Created(@, frame.configData)]
              /\ Finish("ok")
         [] reply = "ResourceExistsException" ->
              /\ pc' = IF opts.override THEN "push_update" ELSE "push_confirm"
              /\ UNCHANGED <<remote, result, thrown>>
         [] OTHER ->
              /\ Throw(reply)
              /\ UNCHANGED remote
  /\ UNCHANGED <<config, local, cmd, opts, frame, local0, remote0, nops, peer>>

\* the update is sent whatever the answer
PushConfirm_UpdatesAnyway ==
  /\ pc = "push_confirm"
  /\ calls' = Append(calls, Call("confirm", "override secret"))
  /\ \E shouldOverride \in BOOLEAN :
       IF shouldOverride
         THEN /\ pc' = "push_update"
              /\ UNCHANGED <<remote, result, thrown>>
         ELSE /\ remote' = [remote EXCEPT ![frame.secretName] = Updated(@, frame.configData)]
              /\ Finish("cancelled")
  /\ UNCHANGED <<config, local, cmd, opts, frame, local0, remote0, nops, peer>>

PushConfirm ==
  /\ pc = "push_confirm"
  /\ calls' = Append(calls, Call("confirm", "override secret"))
  /\ \E shouldOverride \in BOOLEAN :
       IF shouldOverride
         THEN /\ pc' = "push_update"
              /\ UNCHANGED <<result, thrown>>
         ELSE Finish("cancelled")
  /\ UNCHANGED <<config, local, remote, cmd, opts, frame, local0, remote0, nops, peer>>

PushUpdate ==
  /\ pc = "push_update"
  /\ calls' = Append(calls, Call("UpdateSecret", frame.secretName))
  /\ \E reply \in {UpdateReply(remote[frame.secretName])} \cup Faults :
       IF reply = "ok"
         THEN /\ remote' = [remote EXCEPT ![frame.secretName] = Updated(@, frame.configData)]
              /\ Finish("ok")
         ELSE /\ Throw(reply)
              /\ UNCHANGED remote
  /\ UNCHANGED <<config, local, cmd, opts, frame, local0, remote0, nops, peer>>

\* ---- pull
\* a failed read taken for an empty secret, as sync does
PullGet_FailureAsEmpty ==
  /\ pc = "pull_get"
  /\ calls' = Append(calls, Call("GetSecretValue", frame.secretName))
  /\ \E reply \in {GetReply(remote[frame.secretName])} \cup Faults :
       frame' = [frame EXCEPT !.awsConfig =
                   IF reply = "ok" THEN remote[frame.secretName].payload ELSE EmptyDoc,
                 !.caught = IF reply = "ok" THEN "" ELSE reply]
  /\ pc' = IF ~opts.override /\ FileExists(opts.env) THEN "pull_confirm" ELSE "pull_write"
  /\ UNCHANGED <<result, thrown>>
  /\ UNCHANGED <<config, local, remote, cmd, opts, local0, remote0, nops, peer>>

\* the existing document is not looked for: no confirmation
PullGet_NeverAsks ==
  /\ pc = "pull_get"
  /\ calls' = Append(calls, Call("GetSecretValue", frame.secretName))
  /\ \E reply \in {GetReply(remote[frame.secretName])} \cup Faults :
       IF reply = "ok"
         THEN /\ frame' = [frame EXCEPT !.awsConfig = remote[frame.secretName].payload]
              /\ pc' = "pull_write"
              /\ UNCHANGED <<result, thrown>>
         ELSE /\ Throw(reply)
              /\ UNCHANGED frame
  /\ UNCHANGED <<config, local, remote, cmd, opts, local0, remote0, nops, peer>>

PullGet ==
  /\ pc = "pull_get"
  /\ calls' = Append(calls, Call("GetSecretValue", frame.secretName))
  /\ \E reply \in {GetReply(remote[frame.secretName])} \cup Faults :
       IF reply = "ok"
         THEN /\ frame' = [frame EXCEPT !.awsConfig = remote[frame.secretName].payload]
              /\ pc' = IF ~opts.override /\ FileExists(opts.env)
                         THEN "pull_confirm" ELSE "pull_write"
              /\ UNCHANGED <<result, thrown>>
         ELSE /\ Throw(reply)
              /\ UNCHANGED frame
  /\ UNCHANGED <<config, local, remote, cmd, opts, local0, remote0, nops, peer>>

PullConfirm ==
  /\ pc = "pull_confirm"
  /\ calls' = Append(calls, Call("confirm", "override local"))
  /\ \E shouldOverride \in BOOLEAN :
       IF shouldOverride
         THEN /\ pc' = "pull_write"
              /\ UNCHANGED <<result, thrown>>
         ELSE Finish("cancelled")
  /\ UNCHANGED <<config, local, remote, cmd, opts, frame, local0, remote0, nops, peer>>

\* the secret is merged into the existing document instead of replacing it
PullWrite_Patches ==
  /\ pc = "pull_write"
  /\ calls' = Append(calls, Call("writeFile", opts.env))
  /\ local' = WriteFile(local, opts.env,
                IF FileExists(opts.env) THEN Spread(local[opts.env], frame.awsConfig)
                                        ELSE frame.awsConfig)
  /\ Finish("ok")
  /\ UNCHANGED <<config, remote, cmd, opts, frame, local0, remote0, nops, peer>>

PullWrite ==
  /\ pc = "pull_write"
  /\ calls' = Append(calls, Call("writeFile", opts.env))
  /\ local' = WriteFile(local, opts.env, frame.awsConfig)
  /\ Finish("ok")
  /\ UNCHANGED <<config, remote, cmd, opts, frame, local0, remote0, nops, peer>>

\* ---- sync
\* outcomes of fs.readFile + JSON.parse of a document
ReadOutcomes(env) == IF FileExists(env) THEN {"ok", "EIO"} ELSE {"ENOENT"}

\* prefer === 'local' ? { ...awsConfig, ...localConfig } : { ...localConfig, ...awsConfig }
Merge(prefer, localConfig, awsConfig) ==
  IF prefer = "local" THEN Spread(awsConfig, localConfig)
                      ELSE Spread(localConfig, awsConfig)

\* options.prefer || 'local'
Prefer(options) == IF options.prefer = "" THEN "local" ELSE options.prefer

SyncRead ==
  /\ pc = "sync_read"
  /\ calls' = Append(calls, Call("readFile", opts.env))
  /\ \E outcome \in ReadOutcomes(opts.env) :
       frame' = [frame EXCEPT !.localConfig =
                   IF outcome = "ok" THEN local[opts.env] ELSE EmptyDoc]
  /\ pc' = "sync_get"
  /\ UNCHANGED <<config, local, remote, cmd, opts, result, thrown, local0, remote0, nops, peer>>

SyncGet ==
  /\ pc = "sync_get"
  /\ calls' = Append(calls, Call("GetSecretValue", frame.secretName))
  /\ \E reply \in {GetReply(remote[frame.secretName])} \cup Faults :
       frame' = [frame EXCEPT !.awsConfig =
                   IF reply = "ok" THEN remote[frame.secretName].payload ELSE EmptyDoc,
                 !.caught = IF reply = "ok" THEN "" ELSE reply]
  /\ pc' = "sync_write"
  /\ UNCHANGED <<config, local, remote, cmd, opts, result, thrown, local0, remote0, nops, peer>>

\* the merged document computed but the local write left for later
SyncWrite_Deferred ==
  /\ pc = "sync_write"
  /\ calls' = calls
  /\ frame' = [frame EXCEPT !.merged = Merge(Prefer(opts), frame.localConfig, frame.awsConfig)]
  /\ local' = local
  /\ pc' = "sync_update"
  /\ UNCHANGED <<config, remote, cmd, opts, result, thrown, local0, remote0, nops, peer>>

SyncWrite ==
  /\ pc = "sync_write"
  /\ calls' = Append(calls, Call("writeFile", opts.env))
  /\ frame' = [frame EXCEPT !.merged = Merge(Prefer(opts), frame.localConfig, frame.awsConfig)]
  /\ local' = WriteFile(local, opts.env, frame'.merged)
  /\ pc' = "sync_update"
  /\ UNCHANGED <<config, remote, cmd, opts, result, thrown, local0, remote0, nops, peer>>

\* every error of the update rethrown, ResourceNotFoundException included
SyncUpdate_NoCreate ==
  /\ pc = "sync_update"
  /\ calls' = Append(calls, Call("UpdateSecret", frame.secretName))
  /\ \E reply \in {UpdateReply(remote[frame.secretName])} \cup Faults :
       IF reply = "ok"
         THEN /\ remote' = [remote EXCEPT ![frame.secretName] = Updated(@, frame.merged)]
              /\ Finish("ok")
         ELSE /\ Throw(reply)
              /\ UNCHANGED remote
  /\ UNCHANGED <<config, local, cmd, opts, frame, local0, remote0, nops, peer>>

SyncUpdate ==
  /\ pc = "sync_update"
  /\ calls' = Append(calls, Call("UpdateSecret", frame.secretName))
  /\ \E reply \in {UpdateReply(remote[frame.secretName])} \cup Faults :
       CASE reply = "ok" ->
              /\ remote' = [remote EXCEPT ![frame.secretName] = Updated(@, frame.merged)]
              /\ Finish("ok")
         [] reply = "ResourceNotFoundException" ->
              /\ pc' = "sync_create"
              /\ UNCHANGED <<remote, result, thrown>>
         [] OTHER ->
              /\ Throw(reply)
              /\ UNCHANGED remote
  /\ UNCHANGED <<config, local, cmd, opts, frame, local0, remote0, nops, peer>>

SyncCreate ==
  /\ pc = "sync_create"
  /\ calls' = Append(calls, Call("CreateSecret", frame.secretName))
  /\ \E reply \in {CreateReply(remote[frame.secretName])} \cup Faults :
       IF reply = "ok"
         THEN /\ remote' = [remote EXCEPT ![frame.secretName] = Created(@, frame.merged)]
              /\ Finish("ok")
         ELSE /\ Throw(reply)
              /\ UNCHANGED remote
  /\ UNCHANGED <<config, local, cmd, opts, frame, local0, remote0, nops, peer>>

\* ---- deleteSecret (awsCommand 'delete')
\* the upper limit off by one
InvalidWindow_OffByOne(days) == days < MinRecoveryDays \/ days > MaxRecoveryDays + 1

\* options.days < 7 || options.days > 30
InvalidWindow(days) == days < MinRecoveryDays \/ days > MaxRecoveryDays

\* the prompt's validate: isNaN(num) || num < 7 || num > 30 is refused
PromptAccepts(num) == ~(num < MinRecoveryDays \/ num > MaxRecoveryDays)

\* deleteConfirmed = options.confirm === false ? false : true, before any prompt
DelEntry ==
  /\ pc = "del_entry"
  /\ IF opts.confirm
       THEN /\ pc' = "del_confirm"
            /\ UNCHANGED <<result, thrown>>
       ELSE Finish("cancelled")
  /\ UNCHANGED <<config, local, remote, cmd, opts, frame, calls, local0, remote0, nops, peer>>

\* "Are you sure you want to delete secret", then the check of options.days
DelConfirm ==
  /\ pc = "del_confirm"
  /\ calls' = Append(calls, Call("confirm", "delete secret"))
  /\ \E deleteConfirmed \in BOOLEAN :
       IF ~deleteConfirmed
         THEN /\ Finish("cancelled")
              /\ UNCHANGED frame
         ELSE IF opts.days # {}
           THEN IF \E d \in opts.days : InvalidWindow(d)
                  THEN /\ Throw("Invalid recovery window")
                       /\ UNCHANGED frame
                  ELSE /\ frame' = [frame EXCEPT !.forceDelete = opts.force,
                                                 !.recoveryWindow = opts.days]
                       /\ pc' = "del_send"
                       /\ UNCHANGED <<result, thrown>>
           ELSE /\ frame' = [frame EXCEPT !.forceDelete = opts.force]
                /\ pc' = IF opts.force THEN "del_send" ELSE "del_force"
                /\ UNCHANGED <<result, thrown>>
  /\ UNCHANGED <<config, local, remote, cmd, opts, local0, remote0, nops, peer>>

\* "Force immediate deletion without recovery window?"
DelAskForce ==
  /\ pc = "del_force"
  /\ calls' = Append(calls, Call("confirm", "force deletion"))
  /\ \E forceDeletion \in BOOLEAN :
       IF forceDeletion
         THEN /\ frame' = [frame EXCEPT !.forceDelete = TRUE]
              /\ pc' = "del_send"
         ELSE /\ pc' = "del_days"
              /\ UNCHANGED frame
  /\ UNCHANGED <<config, local, remote, cmd, opts, result, thrown, local0, remote0, nops, peer>>

\* "Recovery window in days (7-30)", default '7': returns once validate accepts
DelAskDays ==
  /\ pc = "del_days"
  /\ calls' = Append(calls, Call("input", "recovery window"))
  /\ \E days \in PromptInputs \cup {DefaultRecoveryDays} :
       /\ PromptAccepts(days)
       /\ frame' = [frame EXCEPT !.recoveryWindow = {days}]
  /\ pc' = "del_send"
  /\ UNCHANGED <<config, local, remote, cmd, opts, result, thrown, local0, remote0, nops, peer>>

\* both policies set when both were given
DeleteParams_Both(secretName, forceDelete, recoveryWindow) ==
  [SecretId |-> secretName, ForceDeleteWithoutRecovery |-> forceDelete,
   RecoveryWindowInDays |-> recoveryWindow]

\* deleteParams: ForceDeleteWithoutRecovery if forceDelete, else RecoveryWindowInDays
DeleteParams(secretName, forceDelete, recoveryWindow) ==
  IF forceDelete
    THEN [SecretId |-> secretName, ForceDeleteWithoutRecovery |-> TRUE,
          RecoveryWindowInDays |-> {}]
    ELSE [SecretId |-> secretName, ForceDeleteWithoutRecovery |-> FALSE,
          RecoveryWindowInDays |-> recoveryWindow]

DelSend ==
  /\ pc = "del_send"
  /\ calls' = Append(calls, Call("DeleteSecret", frame.secretName))
  /\ LET params == DeleteParams(frame.secretName, frame.forceDelete, frame.recoveryWindow)
     IN \E reply \in {DeleteReply(remote[frame.secretName])} \cup Faults :
          IF reply = "ok"
            THEN /\ remote' = [remote EXCEPT ![frame.secretName] = Deleted(@, params)]
                 /\ frame' = [frame EXCEPT !.deleteParams = params,
                                           !.DeletionDate = DeletionDate(params)]
                 /\ Finish("ok")
            ELSE /\ frame' = [frame EXCEPT !.deleteParams = params]
                 /\ Throw(reply)
                 /\ UNCHANGED remote
  /\ UNCHANGED <<config, local, cmd, opts, local0, remote0, nops, peer>>

\* ------------------------------------------------------------ envCommand
Templates == {"", "default", "gone"}

EnvOptions(action) ==
  {options \in
  {[NoOpts EXCEPT !.action = action, !.env = e, !.from = t, !.withAws = w,
                  !.force = f, !.days = d] :
     e \in Envs,
     t \in IF action = "env.create" THEN Templates ELSE {""},
     w \in BOOLEAN,
     f \in IF action = "env.delete" THEN BOOLEAN ELSE {FALSE},
     d \in IF action = "env.delete" THEN DaysOpt ELSE {{}}} :
     \* force and days are only passed on to the cascade
     options.withAws \/ (~options.force /\ options.days = {})}

\* case 'create': fs.access(configFile) tells whether the environment exists
EnvCreate ==
  \E options \in EnvOptions("env.create") :
    /\ Begin("env.create")
    /\ opts' = options
    /\ frame' = NoFrame
    /\ IF FileExists(options.env)
         THEN /\ calls' = <<Call("console.error", "already exists")>>
              /\ Finish("ok")
         ELSE /\ calls' = <<>>
              /\ pc' = "envc_write"
              /\ UNCHANGED <<result, thrown>>

\* the template copied as it is, its environment field kept
FromTemplate_NoRewrite(template, name) == Spread(Doc1("environment", name), template)

\* { ...JSON.parse(templateContent), environment: name }
FromTemplate(template, name) == Spread(template, Doc1("environment", name))

\* the template is read, the document written, then awsCommand('push') if asked
EnvCreateWrite ==
  /\ pc = "envc_write"
  /\ IF opts.from # "" /\ opts.from \notin DOMAIN local
       THEN /\ Throw("Template not found")
            /\ calls' = Append(calls, Call("readFile", opts.from))
            /\ UNCHANGED <<local, opts, frame>>
       ELSE /\ local' = WriteFile(local, opts.env,
                          IF opts.from # "" THEN FromTemplate(local[opts.from], opts.env)
                                            ELSE Doc1("environment", opts.env))
            /\ calls' = Append(calls, Call("writeFile", opts.env))
            /\ IF opts.withAws /\ config.packageName # ""
                 THEN EnterAws([NoOpts EXCEPT !.action = "push", !.env = opts.env,
                                               !.override = FALSE])
                 ELSE /\ Finish("ok")
                      /\ UNCHANGED <<opts, frame>>
  /\ UNCHANGED <<config, remote, cmd, local0, remote0, nops, peer>>

\* case 'delete'
EnvDelete ==
  \E options \in EnvOptions("env.delete") :
    /\ Begin("env.delete")
    /\ opts' = options
    /\ frame' = NoFrame
    /\ calls' = <<>>
    /\ pc' = "envd_confirm"
    /\ UNCHANGED <<result, thrown>>

EnvDeleteConfirm ==
  /\ pc = "envd_confirm"
  /\ calls' = Append(calls, Call("confirm", "delete environment"))
  /\ \E confirmed \in BOOLEAN :
       IF confirmed
         THEN /\ pc' = "envd_unlink"
              /\ UNCHANGED <<result, thrown>>
         ELSE Finish("cancelled")
  /\ UNCHANGED <<config, local, remote, cmd, opts, frame, local0, remote0, nops, peer>>

\* the cascade called with the environment only
EnvDeleteUnlink_DropsPolicy ==
  /\ pc = "envd_unlink"
  /\ calls' = Append(calls, Call("unlink", opts.env))
  /\ IF ~FileExists(opts.env)
       THEN /\ Throw("ENOENT")
            /\ UNCHANGED <<local, opts, frame>>
       ELSE /\ local' = Unlink(local, opts.env)
            /\ IF opts.withAws /\ config.packageName # ""
                 THEN EnterAws([NoOpts EXCEPT !.action = "delete", !.env = opts.env])
                 ELSE /\ Finish("ok")
                      /\ UNCHANGED <<opts, frame>>
  /\ UNCHANGED <<config, remote, cmd, local0, remote0, nops, peer>>

\* fs.unlink, then awsCommand('delete', { env, force, days }) if asked
EnvDeleteUnlink ==
  /\ pc = "envd_unlink"
  /\ calls' = Append(calls, Call("unlink", opts.env))
  /\ IF ~FileExists(opts.env)
       THEN /\ Throw("ENOENT")
            /\ UNCHANGED <<local, opts, frame>>
       ELSE /\ local' = Unlink(local, opts.env)
            /\ IF opts.withAws /\ config.packageName # ""
                 THEN EnterAws([NoOpts EXCEPT !.action = "delete", !.env = opts.env,
                                               !.force = opts.force, !.days = opts.days])
                 ELSE /\ Finish("ok")
                      /\ UNCHANGED <<opts, frame>>
  /\ UNCHANGED <<config, remote, cmd, local0, remote0, nops, peer>>

\* case 'list'
\* path.join(configDir, `${env}.json`)
FileName(env) == env \o ".json"

\* fs.readdir(configDir): one file per local document
Files(files) == {FileName(e) : e \in DOMAIN files}

\* f.endsWith(suffix)
EndsWith(f, suffix) ==
  /\ Len(f) >= Len(suffix)
  /\ SubSeq(f, Len(f) - Len(suffix) + 1, Len(f)) = suffix

\* f.indexOf(pattern) counted from 1, 0 when the pattern does not occur
IndexOf(f, pattern) ==
  LET hits == {i \in 1..(Len(f) - Len(pattern) + 1) :
                 SubSeq(f, i, i + Len(pattern) - 1) = pattern}
  IN IF hits = {} THEN 0 ELSE CHOOSE i \in hits : \A j \in hits : i <= j

\* f.replace(pattern, ''): a string pattern replaces its first occurrence only
RemoveFirst(f, pattern) ==
  LET i == IndexOf(f, pattern)
  IN IF i = 0 THEN f ELSE SubSeq(f, 1, i - 1) \o SubSeq(f, i + Len(pattern), Len(f))

\* files.filter(f => f.endsWith('.json') && f !== 'default.json')
\*      .map(f => f.replace('.json', '')), as the bag of the listed names
ListedEnvs(dir) ==
  LET kept == {f \in dir : EndsWith(f, ".json") /\ f # "default.json"}
  IN [n \in {RemoveFirst(f, ".json") : f \in kept} |->
        Cardinality({f \in kept : RemoveFirst(f, ".json") = n})]

\* the secret the store holds under a name, none for a name never used
SecretAt(name) == IF name \in DOMAIN remote THEN remote[name] ELSE NoSecret

EnvList ==
  \E showAws \in BOOLEAN :
    /\ Begin("env.list")
    /\ opts' = [NoOpts EXCEPT !.action = "env.list", !.showAws = showAws]
    /\ frame' = [NoFrame EXCEPT !.envs = ListedEnvs(Files(local))]
    /\ calls' = <<Call("readdir", "")>>
    /\ IF showAws /\ config.packageName # "" /\ DOMAIN frame'.envs # {}
         THEN /\ pc' = "envl_probe"
              /\ UNCHANGED <<result, thrown>>
         ELSE Finish("ok")

\* the loop body with showAws: one GetSecretValue per listed name, any error
\* swallowed into the [AWS x] tag
EnvListProbe ==
  /\ pc = "envl_probe"
  /\ LET todo == (DOMAIN frame.envs) \ (DOMAIN frame.status)
         env == CHOOSE e \in todo : TRUE
         secretName == SecretName(config.packageName, env)
     IN /\ calls' = Append(calls, Call("GetSecretValue", secretName))
        /\ \E reply \in {GetReply(SecretAt(secretName))} \cup Faults :
             frame' = [frame EXCEPT !.status =
                         Spread(frame.status,
                                Doc1(env, IF reply = "ok" THEN "[AWS ok]" ELSE "[AWS x]")),
                       !.caught = IF reply = "ok" THEN "" ELSE reply]
        /\ IF todo = {env}
             THEN Finish("ok")
             ELSE /\ pc' = "envl_probe"
                  /\ UNCHANGED <<result, thrown>>
  /\ UNCHANGED <<config, local, remote, cmd, opts, local0, remote0, nops, peer>>

\* ------------------------------------------------------------ getConfig
\* a value of a parsed document: a scalar with its literal text, an array with
\* its items, or an object with its entries (items and entry values are number
\* literals); typeof gives "object" for the last two, told apart by text
Scalar(type, text) == [type |-> type, text |-> text, items |-> <<>>, entries |-> <<>>]
Array(items) == [type |-> "object", text |-> "[]", items |-> items, entries |-> <<>>]
Object(entries) == [type |-> "object", text |-> "{}", items |-> <<>>, entries |-> entries]

LowerCase == "abcdefghijklmnopqrstuvwxyz"
UpperCase == "ABCDEFGHIJKLMNOPQRSTUVWXYZ"

\* the class [A-Z] of the pattern
IsUpper(c) == IndexOf(UpperCase, c) # 0

\* one character of toUpperCase()
ToUpperChar(c) ==
  LET i == IndexOf(LowerCase, c)
  IN IF i = 0 THEN c ELSE SubSeq(UpperCase, i, i)

RECURSIVE ToUpperCase(_)
ToUpperCase(text) ==
  IF text = "" THEN ""
  ELSE ToUpperChar(SubSeq(text, 1, 1)) \o ToUpperCase(SubSeq(text, 2, Len(text)))

\* key.replace(/([A-Z])/g, "_$1")
RECURSIVE Underscored(_)
Underscored(key) ==
  IF key = "" THEN ""
  ELSE LET c == SubSeq(key, 1, 1)
       IN (IF IsUpper(c) THEN "_" \o c ELSE c) \o Underscored(SubSeq(key, 2, Len(key)))

\* const envKey = key.replace(/([A-Z])/g, "_$1").toUpperCase()
EnvKey(key) == ToUpperCase(Underscored(key))

\* the items of an array, or the entries of an object, joined by commas
RECURSIVE JoinItems(_)
JoinItems(items) ==
  IF items = <<>> THEN ""
  ELSE Head(items) \o (IF Len(items) > 1 THEN "," ELSE "") \o JoinItems(Tail(items))

RECURSIVE JoinEntries(_)
JoinEntries(entries) ==
  IF entries = <<>> THEN ""
  ELSE "\"" \o Head(entries)[1] \o "\":" \o Head(entries)[2]
       \o (IF Len(entries) > 1 THEN "," ELSE "") \o JoinEntries(Tail(entries))

\* JSON.stringify(value) with no indent, of an array or an object
Stringify(value) ==
  IF value.text = "[]"
    THEN "[" \o JoinItems(value.items) \o "]"
    ELSE "{" \o JoinEntries(value.entries) \o "}"

\* typeof value === "object" ? JSON.stringify(value) : value
EnvValue(value) == IF value.type = "object" THEN Stringify(value) ELSE value.text

\* the key written as it is, the underscores left out
EnvLine_PlainKey(entry) == ToUpperCase(entry[1]) \o "=" \o EnvValue(entry[2])

\* `${envKey}=${envValue}`
EnvLine(entry) == EnvKey(entry[1]) \o "=" \o EnvValue(entry[2])

\* Object.entries(result).map(...), the lines before .join("\n")
FormatEnv(entries) == [i \in DOMAIN entries |-> EnvLine(entries[i])]

\* a document as Object.entries gives it: <<key, value>> pairs in key order
Keys(entries) == {entries[i][1] : i \in DOMAIN entries}

Lookup(entries, key) == entries[CHOOSE i \in DOMAIN entries : entries[i][1] = key][2]

\* { ...a, ...b } on entries: a's keys in place with b's values, then b's new keys
SpreadEntries(a, b) ==
  LET New(e) == e[1] \notin Keys(a)
  IN [i \in DOMAIN a |->
        <<a[i][1], IF a[i][1] \in Keys(b) THEN Lookup(b, a[i][1]) ELSE a[i][2]>>]
     \o SelectSeq(b, New)

GetEnvs == {"dev", "qa"}
Sources == {"", "local", "aws", "yaml"}
Formats == {"", "env", "xml"}

GetOptions ==
  {[NoOpts EXCEPT !.action = "get", !.env = e, !.source = src, !.format = f] :
     e \in GetEnvs, src \in Sources, f \in Formats}

\* options.source || "merged"; "all" is not drawn
Source(options) == IF options.source = "" THEN "merged" ELSE options.source

\* options.format || "json"
Format(options) == IF options.format = "" THEN "json" ELSE options.format

\* new Mysterio({ env: options.env || ..., configDirPath: ..., ...config }):
\* the spread of config comes last, and config always has an env
MysterioParams(options) ==
  Spread(Doc1("env", IF options.env # "" THEN options.env ELSE "local"), config)

\* the local documents of an environment, absent read as empty
LocalEntries(env) == IF FileExists(env) THEN local[env] ELSE <<>>

\* mysterio.getDefaultConfigs(): the default document overlaid by the environment's
GetLocal(env) == SpreadEntries(LocalEntries("default"), LocalEntries(env))

\* mysterio.getMerged(): default < environment < secret
GetMerged(env, secrets) == SpreadEntries(GetLocal(env), secrets)

\* getConfig up to its await: the Mysterio instance and the source switch
GetConfig ==
  \E options \in GetOptions :
    /\ Begin("get")
    /\ opts' = options
    /\ calls' = <<>>
    /\ IF Source(options) \notin {"local", "aws", "merged", "all"}
         THEN /\ Throw("Invalid source")
              /\ frame' = NoFrame
         ELSE /\ pc' = "get_fetch"
              /\ frame' = [NoFrame EXCEPT !.secretName =
                             SecretName(config.packageName, MysterioParams(options)["env"])]
              /\ UNCHANGED <<result, thrown>>

\* the formatting of a fetched result, up to console.log(output)
GetFormat(entries) ==
  CASE Format(opts) = "json" ->
         /\ frame' = [frame EXCEPT !.result = entries]
         /\ Finish("ok")
    [] Format(opts) = "env" ->
         /\ frame' = [frame EXCEPT !.result = entries, !.output = FormatEnv(entries)]
         /\ Finish("ok")
    [] OTHER ->
         /\ frame' = [frame EXCEPT !.result = entries]
         /\ Throw("Invalid format")

\* await mysterio.getDefaultConfigs() / getSecrets() / getMerged(), then the format
GetFetch ==
  /\ pc = "get_fetch"
  /\ LET env == MysterioParams(opts)["env"]
     IN CASE Source(opts) = "local" ->
               /\ calls' = Append(calls, Call("readFile", env))
               /\ IF ~FileExists("default") /\ ~FileExists(env)
                    THEN /\ Throw("ENOENT")
                         /\ UNCHANGED frame
                    ELSE GetFormat(GetLocal(env))
          [] Source(opts) = "aws" ->
               /\ calls' = Append(calls, Call("GetSecretValue", frame.secretName))
               /\ \E reply \in {GetReply(SecretAt(frame.secretName))} \cup Faults :
                    IF reply = "ok"
                      THEN GetFormat(SecretAt(frame.secretName).payload)
                      ELSE /\ Throw(reply)
                           /\ UNCHANGED frame
          [] OTHER ->
               /\ calls' = Append(calls, Call("GetSecretValue", frame.secretName))
               /\ \E reply \in {GetReply(SecretAt(frame.secretName))} \cup Faults :
                    CASE reply = "ok" ->
                           GetFormat(GetMerged(env, SecretAt(frame.secretName).payload))
                      [] reply = "ResourceNotFoundException" ->
                           GetFormat(GetMerged(env, <<>>))
                      [] OTHER ->
                           /\ Throw(reply)
                           /\ UNCHANGED frame
  /\ UNCHANGED <<config, local, remote, cmd, opts, local0, remote0, nops, peer>>

\* ------------------------------------------------------------ setConfig
SetKeys == {"", "k"}
SetValues == {"7"}
Targets == {"", "aws", "both"}

SetOptions ==
  {[NoOpts EXCEPT !.action = "set", !.env = e, !.key = k, !.value = v, !.target = t] :
     e \in Envs, k \in SetKeys, v \in SetValues, t \in Targets}

\* options.target || "local"
Target(options) == IF options.target = "" THEN "local" ELSE options.target

\* value.startsWith(prefix)
StartsWith(value, prefix) ==
  Len(value) >= Len(prefix) /\ SubSeq(value, 1, Len(prefix)) = prefix

\* the values JSON.parse accepts, among SetValues
JsonTexts == {"[1]"}

\* JSON.parse(value) of a text that looks like JSON, the text itself otherwise;
\* the parsed value is written json:<text> to keep it apart from the string
ParseValue(value) ==
  IF value # "" /\ (StartsWith(value, "{") \/ StartsWith(value, "["))
       /\ value \in JsonTexts
    THEN "json:" \o value
    ELSE value

\* configData[key] = parsedValue
LocalUpdate(configData, key, value) == Spread(configData, Doc1(key, ParseValue(value)))

\* existingSecrets[key] = value
RemoteUpdate_OnlyKey(existingSecrets, key, value) == Doc1(key, value)

RemoteUpdate(existingSecrets, key, value) == Spread(existingSecrets, Doc1(key, value))

\* applyConfigValue's AWS part up to its first await: the package name check
SetEnterAws ==
  IF config.packageName = ""
    THEN /\ Throw("Package name required")
         /\ frame' = frame
    ELSE /\ pc' = "set_get"
         /\ frame' = [frame EXCEPT !.secretName = SecretName(config.packageName, opts.env)]
         /\ UNCHANGED <<result, thrown>>

\* setConfig, not interactive: the key check, then applyConfigValue
SetConfig ==
  \E options \in SetOptions :
    /\ Begin("set")
    /\ opts' = options
    /\ calls' = <<>>
    /\ IF options.key = ""
         THEN /\ Throw("Key is required")
              /\ frame' = NoFrame
         ELSE IF Target(options) \in {"local", "both"}
           THEN /\ pc' = "set_read"
                /\ frame' = NoFrame
                /\ UNCHANGED <<result, thrown>>
           ELSE IF config.packageName = ""
             THEN /\ Throw("Package name required")
                  /\ frame' = NoFrame
             ELSE /\ pc' = "set_get"
                  /\ frame' = [NoFrame EXCEPT
                       !.secretName = SecretName(config.packageName, options.env)]
                  /\ UNCHANGED <<result, thrown>>

\* fs.readFile + JSON.parse in a try with an empty catch
SetRead ==
  /\ pc = "set_read"
  /\ calls' = Append(calls, Call("readFile", opts.env))
  /\ \E outcome \in ReadOutcomes(opts.env) :
       frame' = [frame EXCEPT !.configData =
                   IF outcome = "ok" THEN local[opts.env] ELSE EmptyDoc]
  /\ pc' = "set_write"
  /\ UNCHANGED <<config, local, remote, cmd, opts, result, thrown, local0, remote0, nops, peer>>

\* fs.writeFile of the document read, then the AWS part for target both
SetWrite ==
  /\ pc = "set_write"
  /\ calls' = Append(calls, Call("writeFile", opts.env))
  /\ local' = WriteFile(local, opts.env, LocalUpdate(frame.configData, opts.key, opts.value))
  /\ IF Target(opts) = "both"
       THEN SetEnterAws
       ELSE /\ Finish("ok")
            /\ UNCHANGED frame
  /\ UNCHANGED <<config, remote, cmd, opts, local0, remote0, nops, peer>>

\* secretsClient(secretName) inside the try
SetGet ==
  /\ pc = "set_get"
  /\ calls' = Append(calls, Call("GetSecretValue", frame.secretName))
  /\ \E reply \in {GetReply(remote[frame.secretName])} \cup Faults :
       CASE reply = "ok" ->
              /\ frame' = [frame EXCEPT !.existingSecrets = remote[frame.secretName].payload]
              /\ pc' = "set_update"
              /\ UNCHANGED <<result, thrown>>
         [] reply = "ResourceNotFoundException" ->
              /\ pc' = "set_create"
              /\ UNCHANGED <<frame, result, thrown>>
         [] OTHER ->
              /\ Throw(reply)
              /\ UNCHANGED frame
  /\ UNCHANGED <<config, local, remote, cmd, opts, local0, remote0, nops, peer>>

\* UpdateSecret with the payload read plus the key, inside the same try
SetUpdate ==
  /\ pc = "set_update"
  /\ calls' = Append(calls, Call("UpdateSecret", frame.secretName))
  /\ \E reply \in {UpdateReply(remote[frame.secretName])} \cup Faults :
       CASE reply = "ok" ->
              /\ remote' = [remote EXCEPT ![frame.secretName] =
                              Updated(@, RemoteUpdate(frame.existingSecrets, opts.key, opts.value))]
              /\ Finish("ok")
         [] reply = "ResourceNotFoundException" ->
              /\ pc' = "set_create"
              /\ UNCHANGED <<remote, result, thrown>>
         [] OTHER ->
              /\ Throw(reply)
              /\ UNCHANGED remote
  /\ UNCHANGED <<config, local, cmd, opts, frame, local0, remote0, nops, peer>>

\* the catch on ResourceNotFoundException: CreateSecret with { [key]: value }
SetCreate ==
  /\ pc = "set_create"
  /\ calls' = Append(calls, Call("CreateSecret", frame.secretName))
  /\ \E reply \in {CreateReply(remote[frame.secretName])} \cup Faults :
       IF reply = "ok"
         THEN /\ remote' = [remote EXCEPT ![frame.secretName] =
                              Created(@, Doc1(opts.key, opts.value))]
              /\ Finish("ok")
         ELSE /\ Throw(reply)
              /\ UNCHANGED remote
  /\ UNCHANGED <<config, local, cmd, opts, frame, local0, remote0, nops, peer>>

\* ------------------------------------- setConfig in a second process
\* the second process sets its own key, in the local document or in the secret
RaceEnvs == {"dev"}
PeerKeys == {"p"}
PeerValues == {"[1]"}
PeerTargets == {"", "aws"}

\* setConfig(key, value, { env, target }) up to applyConfigValue's first await
PeerSet ==
  /\ peer.pc = "idle"
  /\ \E e \in RaceEnvs, k \in PeerKeys, v \in PeerValues, t \in PeerTargets :
       peer' = [NoPeer EXCEPT !.env = e, !.key = k, !.value = v,
                  !.target = IF t = "" THEN "local" ELSE t,
                  !.pc = IF t = "" THEN "set_read"
                         ELSE IF config.packageName = "" THEN "done" ELSE "set_get",
                  !.result = IF t # "" /\ config.packageName = "" THEN "error" ELSE "none",
                  !.thrown = IF t # "" /\ config.packageName = ""
                               THEN "Package name required" ELSE ""]
  /\ UNCHANGED <<config, local, remote, pc, cmd, opts, frame, result, thrown, calls,
                 local0, remote0, nops>>

PeerRead ==
  /\ peer.pc = "set_read"
  /\ calls' = Append(calls, Call("peer.readFile", peer.env))
  /\ \E outcome \in ReadOutcomes(peer.env) :
       peer' = [peer EXCEPT !.pc = "set_write",
                  !.configData = IF outcome = "ok" THEN local[peer.env] ELSE EmptyDoc]
  /\ UNCHANGED <<config, local, remote, pc, cmd, opts, frame, result, thrown,
                 local0, remote0, nops>>

\* the write made from the document as it is when the write happens
PeerWrite_Rereads ==
  /\ peer.pc = "set_write"
  /\ calls' = Append(calls, Call("peer.writeFile", peer.env))
  /\ local' = WriteFile(local, peer.env,
                LocalUpdate(IF FileExists(peer.env) THEN local[peer.env] ELSE EmptyDoc,
                            peer.key, peer.value))
  /\ peer' = [peer EXCEPT !.pc = "done", !.result = "ok"]
  /\ UNCHANGED <<config, remote, pc, cmd, opts, frame, result, thrown,
                 local0, remote0, nops>>

\* fs.writeFile of the document this process read, with its key set
PeerWrite ==
  /\ peer.pc = "set_write"
  /\ calls' = Append(calls, Call("peer.writeFile", peer.env))
  /\ local' = WriteFile(local, peer.env, LocalUpdate(peer.configData, peer.key, peer.value))
  /\ peer' = [peer EXCEPT !.pc = "done", !.result = "ok"]
  /\ UNCHANGED <<config, remote, pc, cmd, opts, frame, result, thrown,
                 local0, remote0, nops>>

PeerSecretName == SecretName(config.packageName, peer.env)

PeerGet ==
  /\ peer.pc = "set_get"
  /\ calls' = Append(calls, Call("peer.GetSecretValue", PeerSecretName))
  /\ \E reply \in {GetReply(remote[PeerSecretName])} \cup Faults :
       peer' = CASE reply = "ok" ->
                      [peer EXCEPT !.pc = "set_update",
                                   !.existingSecrets = remote[PeerSecretName].payload]
                 [] reply = "ResourceNotFoundException" ->
                      [peer EXCEPT !.pc = "set_create"]
                 [] OTHER ->
                      [peer EXCEPT !.pc = "done", !.result = "error", !.thrown = reply]
  /\ UNCHANGED <<config, local, remote, pc, cmd, opts, frame, result, thrown,
                 local0, remote0, nops>>

\* the update made from the payload as it is when the update happens
PeerUpdate_Rereads ==
  /\ peer.pc = "set_update"
  /\ calls' = Append(calls, Call("peer.UpdateSecret", PeerSecretName))
  /\ \E reply \in {UpdateReply(remote[PeerSecretName])} \cup Faults :
       CASE reply = "ok" ->
              /\ remote' = [remote EXCEPT ![PeerSecretName] =
                              Updated(@, RemoteUpdate(@.payload, peer.key, peer.value))]
              /\ peer' = [peer EXCEPT !.pc = "done", !.result = "ok"]
         [] reply = "ResourceNotFoundException" ->
              /\ peer' = [peer EXCEPT !.pc = "set_create"]
              /\ UNCHANGED remote
         [] OTHER ->
              /\ peer' = [peer EXCEPT !.pc = "done", !.result = "error", !.thrown = reply]
              /\ UNCHANGED remote
  /\ UNCHANGED <<config, local, pc, cmd, opts, frame, result, thrown,
                 local0, remote0, nops>>

\* UpdateSecret with SecretId and SecretString only: no version is sent
PeerUpdate ==
  /\ peer.pc = "set_update"
  /\ calls' = Append(calls, Call("peer.UpdateSecret", PeerSecretName))
  /\ \E reply \in {UpdateReply(remote[PeerSecretName])} \cup Faults :
       CASE reply = "ok" ->
              /\ remote' = [remote EXCEPT ![PeerSecretName] =
                              Updated(@, RemoteUpdate(peer.existingSecrets, peer.key,
                                                      peer.value))]
              /\ peer' = [peer EXCEPT !.pc = "done", !.result = "ok"]
         [] reply = "ResourceNotFoundException" ->
              /\ peer' = [peer EXCEPT !.pc = "set_create"]
              /\ UNCHANGED remote
         [] OTHER ->
              /\ peer' = [peer EXCEPT !.pc = "done", !.result = "error", !.thrown = reply]
              /\ UNCHANGED remote
  /\ UNCHANGED <<config, local, pc, cmd, opts, frame, result, thrown,
                 local0, remote0, nops>>

PeerCreate ==
  /\ peer.pc = "set_create"
  /\ calls' = Append(calls, Call("peer.CreateSecret", PeerSecretName))
  /\ \E reply \in {CreateReply(remote[PeerSecretName])} \cup Faults :
       IF reply = "ok"
         THEN /\ remote' = [remote EXCEPT ![PeerSecretName] =
                              Created(@, Doc1(peer.key, peer.value))]
              /\ peer' = [peer EXCEPT !.pc = "done", !.result = "ok"]
         ELSE /\ peer' = [peer EXCEPT !.pc = "done", !.result = "error", !.thrown = reply]
              /\ UNCHANGED remote
  /\ UNCHANGED <<config, local, pc, cmd, opts, frame, result, thrown,
                 local0, remote0, nops>>

\* ------------------------------------------------------------ createSecret
CreateSecretOptions ==
  {[NoOpts EXCEPT !.action = "createSecret", !.env = e, !.packageName = p,
                  !.confirm = c, !.initialValues = i] :
     e \in Envs, p \in PkgNames, c \in BOOLEAN,
     i \in {{}, {[k |-> "5"]}}}

\* the package name check, then the choice of secretValue up to its first await
CreateSecret ==
  \E options \in CreateSecretOptions :
    \* a package option is given where the configuration has none
    /\ options.packageName = "" \/ config.packageName = ""
    /\ Begin("createSecret")
    /\ opts' = options
    /\ calls' = <<>>
    /\ IF PackageName(options) = ""
         THEN /\ Throw("Package name not provided")
              /\ frame' = NoFrame
         ELSE /\ pc' = "cs_value"
              /\ frame' = [NoFrame EXCEPT
                   !.secretName = SecretName(PackageName(options), options.env)]
              /\ UNCHANGED <<result, thrown>>

\* secretValue: options.initialValues, else the config file (asked unless
\* --no-confirm), else '{}'
CsValue ==
  /\ pc = "cs_value"
  /\ IF opts.initialValues # {}
       THEN /\ frame' = [frame EXCEPT !.configData = CHOOSE d \in opts.initialValues : TRUE]
            /\ pc' = "cs_create"
            /\ UNCHANGED calls
       ELSE IF ~FileExists(opts.env)
         THEN /\ frame' = [frame EXCEPT !.configData = EmptyDoc]
              /\ pc' = "cs_create"
              /\ UNCHANGED calls
         ELSE IF opts.confirm
           THEN /\ pc' = "cs_use"
                /\ UNCHANGED <<frame, calls>>
           ELSE /\ frame' = [frame EXCEPT !.configData = local[opts.env]]
                /\ pc' = "cs_create"
                /\ calls' = Append(calls, Call("readFile", opts.env))
  /\ UNCHANGED <<config, local, remote, cmd, opts, result, thrown, local0, remote0, nops, peer>>

\* "Config file exists. Use it as initial secret values?"
CsAskUse ==
  /\ pc = "cs_use"
  /\ calls' = Append(calls, Call("confirm", "use config"))
  /\ \E useConfig \in BOOLEAN :
       frame' = [frame EXCEPT !.configData =
                   IF useConfig /\ FileExists(opts.env) THEN local[opts.env] ELSE EmptyDoc]
  /\ pc' = "cs_create"
  /\ UNCHANGED <<config, local, remote, cmd, opts, result, thrown, local0, remote0, nops, peer>>

CsCreate ==
  /\ pc = "cs_create"
  /\ calls' = Append(calls, Call("CreateSecret", frame.secretName))
  /\ \E reply \in {CreateReply(remote[frame.secretName])} \cup Faults :
       CASE reply = "ok" ->
              /\ remote' = [remote EXCEPT ![frame.secretName] = Created(@, frame.configData)]
              /\ pc' = "cs_local"
              /\ UNCHANGED <<result, thrown>>
         [] reply = "ResourceExistsException" /\ opts.confirm ->
              /\ pc' = "cs_confirm"
              /\ UNCHANGED <<remote, result, thrown>>
         [] OTHER ->
              /\ Throw(reply)
              /\ UNCHANGED remote
  /\ UNCHANGED <<config, local, cmd, opts, frame, local0, remote0, nops, peer>>

\* "Secret already exists. Override it?"
CsConfirm ==
  /\ pc = "cs_confirm"
  /\ calls' = Append(calls, Call("confirm", "override secret"))
  /\ \E override \in BOOLEAN :
       IF override
         THEN /\ pc' = "cs_update"
              /\ UNCHANGED <<result, thrown>>
         ELSE Finish("cancelled")
  /\ UNCHANGED <<config, local, remote, cmd, opts, frame, local0, remote0, nops, peer>>

CsUpdate ==
  /\ pc = "cs_update"
  /\ calls' = Append(calls, Call("UpdateSecret", frame.secretName))
  /\ \E reply \in {UpdateReply(remote[frame.secretName])} \cup Faults :
       IF reply = "ok"
         THEN /\ remote' = [remote EXCEPT ![frame.secretName] = Updated(@, frame.configData)]
              /\ pc' = "cs_local"
              /\ UNCHANGED <<result, thrown>>
         ELSE /\ Throw(reply)
              /\ UNCHANGED remote
  /\ UNCHANGED <<config, local, cmd, opts, frame, local0, remote0, nops, peer>>

\* after the secret is written: offer to create the missing local config file
CsLocal ==
  /\ pc = "cs_local"
  /\ IF ~FileExists(opts.env) /\ opts.confirm
       THEN /\ calls' = Append(calls, Call("confirm", "create local config"))
            /\ \E createConfig \in BOOLEAN :
                 local' = IF createConfig
                            THEN WriteFile(local, opts.env, Doc1("environment", opts.env))
                            ELSE local
       ELSE UNCHANGED <<calls, local>>
  /\ Finish("ok")
  /\ UNCHANGED <<config, remote, cmd, opts, frame, local0, remote0, nops, peer>>

\* ------------------------------------------------------------ specification
Next ==
  \/ AwsCommand
  \/ PushRead
  \/ PushCreate
  \/ PushConfirm
  \/ PushUpdate
  \/ PullGet
  \/ PullConfirm
  \/ PullWrite
  \/ SyncRead
  \/ SyncGet
  \/ SyncWrite
  \/ SyncUpdate
  \/ SyncCreate
  \/ DelEntry
  \/ DelConfirm
  \/ DelAskForce
  \/ DelAskDays
  \/ DelSend
  \/ EnvCreate
  \/ EnvCreateWrite
  \/ EnvDelete
  \/ EnvDeleteConfirm
  \/ EnvDeleteUnlink
  \/ EnvList
  \/ EnvListProbe
  \/ SetConfig
  \/ SetRead
  \/ SetWrite
  \/ SetGet
  \/ SetUpdate
  \/ SetCreate
  \/ CreateSecret
  \/ CsValue
  \/ CsAskUse
  \/ CsCreate
  \/ CsConfirm
  \/ CsUpdate
  \/ CsLocal
  \/ Return

Spec == Init /\ [][Next]_vars

\* the listing alone, over directories of documents with any names
ListNames == {"default", "dev", "qa", "x.jsonl"}

InitList ==
  /\ config \in {[packageName |-> p] : p \in PkgNames}
  /\ local \in {[e \in S |-> Doc1("environment", e)] : S \in SUBSET ListNames}
  /\ remote \in InitRemote
  /\ pc = "idle"
  /\ cmd = ""
  /\ opts = NoOpts
  /\ frame = NoFrame
  /\ result = "none"
  /\ thrown = ""
  /\ calls = <<>>
  /\ local0 = local
  /\ remote0 = remote
  /\ nops = 0
  /\ peer = NoPeer

NextList ==
  \/ EnvList
  \/ EnvListProbe
  \/ Return

SpecList == InitList /\ [][NextList]_vars

\* two processes on one environment: setConfig or sync in the first, one
\* setConfig in the second
RaceSet ==
  \E options \in SetOptions :
    /\ options.env \in RaceEnvs /\ options.key # "" /\ options.target # "both"
    /\ nops < MaxRaceOps
    /\ Begin("set")
    /\ opts' = options
    /\ calls' = <<>>
    /\ IF Target(options) = "local"
         THEN /\ pc' = "set_read"
              /\ frame' = NoFrame
         ELSE /\ pc' = "set_get"
              /\ frame' = [NoFrame EXCEPT
                   !.secretName = SecretName(config.packageName, options.env)]
    /\ UNCHANGED <<result, thrown>>

RaceSync ==
  \E options \in AwsOptions("sync") :
    /\ options.env \in RaceEnvs /\ options.packageName = ""
    /\ nops < MaxRaceOps
    /\ Begin("aws")
    /\ EnterAws(options)
    /\ calls' = <<>>

InitRace ==
  /\ config = [packageName |-> "app"]
  /\ local \in {l \in InitLocal : "dev" \in DOMAIN l}
  /\ remote \in {r \in InitRemote : r[SecretName("app", "dev")].state # "PENDING_DELETION"}
  /\ pc = "idle"
  /\ cmd = ""
  /\ opts = NoOpts
  /\ frame = NoFrame
  /\ result = "none"
  /\ thrown = ""
  /\ calls = <<>>
  /\ local0 = local
  /\ remote0 = remote
  /\ nops = 0
  /\ peer = NoPeer

NextRace ==
  \/ RaceSet
  \/ SetRead
  \/ SetWrite
  \/ SetGet
  \/ SetUpdate
  \/ SetCreate
  \/ RaceSync
  \/ SyncRead
  \/ SyncGet
  \/ SyncWrite
  \/ SyncUpdate
  \/ SyncCreate
  \/ PeerSet
  \/ PeerRead
  \/ PeerWrite
  \/ PeerGet
  \/ PeerUpdate
  \/ PeerCreate
  \/ Return

SpecRace == InitRace /\ [][NextRace]_vars

\* setConfig alone, over keys the documents hold and values that look like JSON
JsonKeys == {"k", "x", "y"}
JsonValues == {"7", "[1]", "{bad"}

SetJson ==
  \E options \in {[NoOpts EXCEPT !.action = "set", !.env = e, !.key = k, !.value = v,
                                  !.target = t] :
                    e \in RaceEnvs, k \in JsonKeys, v \in JsonValues, t \in Targets} :
    /\ Begin("set")
    /\ opts' = options
    /\ calls' = <<>>
    /\ IF Target(options) \in {"local", "both"}
         THEN /\ pc' = "set_read"
              /\ frame' = NoFrame
              /\ UNCHANGED <<result, thrown>>
         ELSE IF config.packageName = ""
           THEN /\ Throw("Package name required")
                /\ frame' = NoFrame
           ELSE /\ pc' = "set_get"
                /\ frame' = [NoFrame EXCEPT
                     !.secretName = SecretName(config.packageName, options.env)]
                /\ UNCHANGED <<result, thrown>>

NextSet ==
  \/ SetJson
  \/ SetRead
  \/ SetWrite
  \/ SetGet
  \/ SetUpdate
  \/ SetCreate
  \/ Return

SpecSet == Init /\ [][NextSet]_vars

\* getConfig alone, over documents of typed values
DefaultEntries ==
  <<<<"dbHost", Scalar("string", "localhost")>>, <<"maxConn", Scalar("number", "5")>>>>

EnvEntries ==
  {<<<<"maxConn", Scalar("number", "9")>>, <<"featureFlags", Array(<<"1", "2">>)>>>>,
   <<<<"APIKey", Scalar("string", "k1")>>, <<"debug", Scalar("boolean", "true")>>>>}

SecretEntries ==
  {<<<<"dbHost", Scalar("string", "rds")>>, <<"dbOpts", Object(<<<<"a", "1">>>>)>>>>,
   <<<<"maxConn", Scalar("number", "50")>>, <<"empty", Array(<<>>)>>>>}

GetSecrets ==
  {NoSecret}
  \cup {[state |-> "ACTIVE", payload |-> d, version |-> 1, deadline |-> {}] :
          d \in SecretEntries}

InitGet ==
  /\ config \in {[packageName |-> "app", env |-> e] : e \in GetEnvs}
  /\ local \in {[e \in {"default"} \cup S |->
                   IF e = "default" THEN DefaultEntries ELSE d] :
                  S \in SUBSET GetEnvs, d \in EnvEntries}
  /\ remote \in [{SecretName("app", e) : e \in GetEnvs} -> GetSecrets]
  /\ pc = "idle"
  /\ cmd = ""
  /\ opts = NoOpts
  /\ frame = NoFrame
  /\ result = "none"
  /\ thrown = ""
  /\ calls = <<>>
  /\ local0 = local
  /\ remote0 = remote
  /\ nops = 0
  /\ peer = NoPeer

NextGet ==
  \/ GetConfig
  \/ GetFetch
  \/ Return

SpecGet == InitGet /\ [][NextGet]_vars

TypeOK ==
  /\ pc \in {"idle", "done", "push_read", "push_create", "push_confirm", "push_update",
             "pull_get", "pull_confirm", "pull_write", "sync_read", "sync_get",
             "sync_write", "sync_update", "sync_create", "del_entry", "del_confirm",
             "del_force", "del_days", "del_send", "envc_write", "envd_confirm",
             "envd_unlink", "envl_probe", "set_read", "set_write",
             "set_get", "set_update", "set_create", "cs_value", "cs_use", "cs_create", "cs_confirm",
             "cs_update", "cs_local"}
  /\ result \in {"none", "ok", "cancelled", "error"}
  /\ DOMAIN local \subseteq Envs
  /\ DOMAIN remote = SecretNames
  /\ nops \in 0..MaxOps

\* ------------------------------------------------------------ vocabulary
Done == pc = "done"

\* the invocation is (or has called) the awsCommand action
Running(action) == pc # "idle" /\ opts.action = action /\ frame.secretName # ""

\* the awsCommand action was invoked directly
Direct(action) == Running(action) /\ cmd = "aws"

Asked(what) == \E i \in DOMAIN calls : calls[i] = Call("confirm", what)

Sent(api) == \E i \in DOMAIN calls : calls[i][1] = api

Times(api) == Cardinality({i \in DOMAIN calls : calls[i][1] = api})

Wrote(env) == \E i \in DOMAIN calls : calls[i] = Call("writeFile", env)

\* every i-th call of kind a comes after some call of kind b
Precedes(b, a) ==
  \A i \in DOMAIN calls : calls[i] = a => \E j \in 1..(i - 1) : calls[j] = b

Secret == remote[frame.secretName]
Secret0 == remote0[frame.secretName]

OthersUntouched ==
  /\ \A n \in SecretNames \ {frame.secretName} : remote[n] = remote0[n]

\* the keys of the environment's document and of its secret when the invocation started
Keys0 ==
  (IF opts.env \in DOMAIN local0 THEN DOMAIN local0[opts.env] ELSE {})
  \cup (IF Secret0.state = "ACTIVE" THEN DOMAIN Secret0.payload ELSE {})

\* errors of a remote request, as they reach the caller of pull or push
RemoteErrors ==
  Faults \cup {"ResourceNotFoundException", "ResourceExistsException",
               "InvalidRequestException"}

\* ------------------------------------------------------------ claims

\* C1: a sync of an existing document L and an existing secret payload R that
\* ends successfully leaves both sides equal to merged(L, R): R overlaid by L
\* under prefer local (the default), L overlaid by R otherwise.
C1_SyncLeavesMerged ==
  (Direct("sync") /\ Done /\ result = "ok"
     /\ opts.env \in DOMAIN local0 /\ Secret0.state = "ACTIVE")
  => LET m == Merge(Prefer(opts), local0[opts.env], Secret0.payload)
     IN /\ local[opts.env] = m
        /\ Secret.state = "ACTIVE"
        /\ Secret.payload = m

\* C2: sync never deletes a key: whatever its two reads returned, every key of
\* the document or of the secret payload before the sync is still on each side
\* the sync wrote.
C2_SyncNeverDeletesKey ==
  Direct("sync")
  => /\ Wrote(opts.env) => Keys0 \subseteq DOMAIN local[opts.env]
     /\ Secret.version # Secret0.version => Keys0 \subseteq DOMAIN Secret.payload

\* C3: push on an existing secret without override asks before it updates; a
\* declined confirmation ends the push, and createSecret, as cancelled with no
\* error and with the payload, the version and the local documents unchanged.
C3_DeclinedOverrideChangesNothing ==
  /\ (Direct("push") /\ ~opts.override /\ Secret0.state = "ACTIVE"
        /\ (pc = "push_update" \/ Sent("UpdateSecret") \/ Secret # Secret0))
     => Asked("override secret")
  /\ (Direct("push") /\ ~opts.override /\ Secret0.state = "ACTIVE"
        /\ Sent("CreateSecret") /\ ~Done)
     => pc \in {"push_confirm", "push_update"}
  /\ ((Direct("push") \/ cmd = "createSecret") /\ Done /\ result = "cancelled")
     => /\ thrown = ""
        /\ Asked("override secret")
        /\ remote = remote0
        /\ local = local0

C3_Witness ==
  /\ Direct("push") /\ Done /\ result = "cancelled"
  /\ Secret0.state = "ACTIVE" /\ Secret0.payload # local[opts.env]

\* C4: a push that ends successfully leaves the secret ACTIVE with the local
\* document as payload: created if it did not exist, else updated in place
\* (one version more) after override or an accepted confirmation; the local
\* documents are unchanged.
C4_PushStoresLocalDocument ==
  (Running("push") /\ Done /\ result = "ok")
  => /\ Secret.state = "ACTIVE"
     /\ Secret.payload = local[opts.env]
     /\ OthersUntouched
     /\ cmd = "aws" => local = local0
     /\ IF Secret0.state = "ACTIVE"
          THEN /\ Times("UpdateSecret") = 1
               /\ Secret.version = Secret0.version + 1
               /\ opts.override \/ Asked("override secret")
          ELSE /\ Times("CreateSecret") = 1
               /\ ~Sent("UpdateSecret")

C4_Witness ==
  /\ Direct("push") /\ Done /\ result = "ok"
  /\ Secret0.state = "ACTIVE" /\ Secret0.payload # Secret.payload
  /\ ~opts.override

\* C5: a pull that ends successfully leaves the local document equal to the
\* whole secret payload (keys only in the previous document are gone) and
\* leaves the remote store and the other documents unchanged.
C5_PullOverwritesLocal ==
  (Direct("pull") /\ Done /\ result = "ok")
  => /\ opts.env \in DOMAIN local
     /\ local[opts.env] = Secret0.payload
     /\ remote = remote0
     /\ \A e \in Envs \ {opts.env} :
          /\ e \in DOMAIN local <=> e \in DOMAIN local0
          /\ e \in DOMAIN local => local[e] = local0[e]

C5_Witness ==
  /\ Direct("pull") /\ Done /\ result = "ok"
  /\ opts.env \in DOMAIN local0
  /\ \E k \in DOMAIN local0[opts.env] : k \notin DOMAIN local[opts.env]

\* C6: pull without override on an existing document asks before any write;
\* declined, it ends cancelled with no error and both stores untouched; with
\* no document it writes without asking.
C6_PullAsksBeforeOverwrite ==
  Direct("pull")
  => /\ (~opts.override /\ opts.env \in DOMAIN local0)
        => /\ Precedes(Call("confirm", "override local"), Call("writeFile", opts.env))
           /\ pc = "pull_write" => Asked("override local")
     /\ (Done /\ result = "cancelled")
        => /\ thrown = ""
           /\ Asked("override local")
           /\ local = local0
           /\ remote = remote0
     /\ opts.env \notin DOMAIN local0
        => /\ ~Asked("override local")
           /\ pc # "pull_confirm"
     /\ local # local0 => Wrote(opts.env)

C6_Witness ==
  /\ Direct("pull") /\ Done /\ result = "cancelled"
  /\ local[opts.env] # Secret.payload

C9_CancelLeavesStores ==
  (Done /\ result = "cancelled") => (local = local0 /\ remote = remote0)

\* C10: when the remote side of sync or of a cascading env delete fails after
\* the local side was written, the caller gets a partial-failure error that
\* differs from the error of a failure that wrote nothing.
C10_PartialFailureSurfaced ==
  (Done /\ result = "error"
     /\ \/ Direct("sync") /\ Wrote(opts.env)
        \/ cmd = "env.delete" /\ local # local0)
  => thrown \notin RemoteErrors

\* C11: env create for a name whose document exists fails with an error and
\* changes nothing: no document written, no remote request, withAws or not.
C11_CreateExistingFails ==
  (cmd = "env.create" /\ Done /\ opts.env \in DOMAIN local0)
  => /\ result = "error"
     /\ local = local0
     /\ remote = remote0
     /\ ~Sent("CreateSecret") /\ ~Sent("UpdateSecret")

\* C12: env create for a new name writes {environment: name} without a
\* template; with a template it writes the template's document with only the
\* environment field set to name, the template and every other document
\* unchanged; a missing template raises "Template not found" and nothing is
\* written.
C12_CreateWritesDocument ==
  [][pc = "envc_write"
     => IF opts.from # "" /\ opts.from \notin DOMAIN local
          THEN /\ local' = local
               /\ remote' = remote
               /\ pc' = "done" /\ result' = "error" /\ thrown' = "Template not found"
          ELSE /\ DOMAIN local' = (DOMAIN local) \cup {opts.env}
               /\ \A e \in DOMAIN local : local'[e] = local[e]
               /\ local'[opts.env]["environment"] = opts.env
               /\ IF opts.from = ""
                    THEN DOMAIN local'[opts.env] = {"environment"}
                    ELSE /\ DOMAIN local'[opts.env] =
                              (DOMAIN local[opts.from]) \cup {"environment"}
                         /\ \A k \in (DOMAIN local[opts.from]) \ {"environment"} :
                              local'[opts.env][k] = local[opts.from][k]]_vars

C12_Witness ==
  /\ cmd = "env.create" /\ Done /\ result = "ok"
  /\ opts.from = "default" /\ opts.env = "dev"
  /\ local["dev"] = [environment |-> "dev", x |-> "0"]
  /\ local["default"] = DefaultDoc

\* C13: env list gives exactly the names of the local documents other than
\* default, each once.
C13_ListsDocuments ==
  (cmd = "env.list" /\ Done /\ result = "ok")
  => frame.envs = [e \in (DOMAIN local) \ {"default"} |-> 1]

\* C14: no operation deletes the default document: once it exists it exists
\* after every step.
C14_DefaultNeverDeleted ==
  [][("default" \in DOMAIN local) => ("default" \in DOMAIN local')]_vars

C16_SyncAbsentSides ==
  (Direct("sync") /\ Done)
  => LET noLocal == opts.env \notin DOMAIN local0
         noSecret == Secret0.state \in {"ABSENT", "DELETED"}
         merged == Merge(Prefer(opts),
                         IF noLocal THEN EmptyDoc ELSE frame.localConfig,
                         IF noSecret THEN EmptyDoc ELSE frame.awsConfig)
     IN /\ thrown \notin {"ENOENT", "ResourceNotFoundException"}
        /\ local[opts.env] = merged
        /\ noSecret
           => /\ result = "ok" \/ thrown \in Faults
              /\ result = "ok"
                 => /\ Sent("CreateSecret")
                    /\ Secret.state = "ACTIVE"
                    /\ Secret.payload = merged

\* neither side existed: both are created, empty
C16_Witness ==
  /\ Direct("sync") /\ Done /\ result = "ok"
  /\ opts.env \notin DOMAIN local0
  /\ Secret0.state = "ABSENT"
  /\ Sent("CreateSecret")
  /\ local[opts.env] = EmptyDoc
  /\ Secret.state = "ACTIVE" /\ Secret.payload = EmptyDoc

\* C17: unattended use never stops at a prompt: push and pull with override
\* request no decision, and the secret delete with force or with a valid days
\* option requests none and goes on to the DeleteSecret request.
C17_UnattendedNeverAsks ==
  /\ ((Direct("push") \/ Direct("pull")) /\ opts.override)
     => \A i \in DOMAIN calls : calls[i][1] \notin {"confirm", "input"}
  /\ (Running("delete")
        /\ (opts.force \/ (opts.days # {} /\ \A d \in opts.days : ~InvalidWindow(d))))
     => /\ ~Asked("delete secret")
        /\ ~Asked("force deletion")
        /\ \A i \in DOMAIN calls : calls[i][1] # "input"
        /\ (Done /\ result # "error") => Sent("DeleteSecret")

\* C18: a credentials failure of a remote call ends push, pull, sync, set and
\* delete: the error reaches the caller and the failed call is the last thing
\* the invocation did.
C18_CredentialsFailureTerminal ==
  (pc # "idle" /\ opts.action \in {"push", "pull", "sync", "set", "delete"}
     /\ (frame.caught = "CredentialsProviderError" \/ thrown = "CredentialsProviderError"))
  => /\ Done /\ result = "error" /\ thrown = "CredentialsProviderError"
     /\ calls # <<>>
     /\ calls[Len(calls)][1] \in {"GetSecretValue", "CreateSecret", "UpdateSecret",
                                  "DeleteSecret"}

\* some call a, then some call b, then some call c in the log of the invocation
InOrder(a, b, c) ==
  \E i, j, k \in DOMAIN calls :
    i < j /\ j < k /\ calls[i] = a /\ calls[j] = b /\ calls[k] = c

PeerDone == peer.pc = "done" /\ peer.result = "ok"

\* the last entry of the log that writes the document or the secret
LastWrite(apis) ==
  LET writes == {i \in DOMAIN calls : calls[i][1] \in apis}
  IN IF writes = {} THEN "" ELSE calls[CHOOSE i \in writes : \A j \in writes : j <= i][1]

\* C19: two setConfig on the same document with distinct keys are not atomic:
\* when the second process read the document before the first wrote it and
\* wrote after, the first process's key is not in the final document (and the
\* other way round); such a lost update is reachable.
C19_LocalLostUpdate ==
  (/\ opts.action = "set" /\ Target(opts) = "local" /\ Done /\ result = "ok"
   /\ PeerDone /\ peer.target = "local" /\ peer.env = opts.env /\ peer.key # opts.key)
  => /\ (/\ InOrder(Call("peer.readFile", opts.env), Call("writeFile", opts.env),
                    Call("peer.writeFile", opts.env))
         /\ opts.key \notin DOMAIN peer.configData)
        => /\ opts.key \notin DOMAIN local[opts.env]
           /\ peer.key \in DOMAIN local[opts.env]
     /\ (/\ InOrder(Call("readFile", opts.env), Call("peer.writeFile", opts.env),
                    Call("writeFile", opts.env))
         /\ peer.key \notin DOMAIN frame.configData)
        => /\ peer.key \notin DOMAIN local[opts.env]
           /\ opts.key \in DOMAIN local[opts.env]

\* read, read, write, write: both ended ok and only the second key is there
C19_Witness ==
  /\ opts.action = "set" /\ Target(opts) = "local" /\ Done /\ result = "ok"
  /\ PeerDone /\ peer.target = "local" /\ peer.env = opts.env
  /\ \E i, j, k, l \in DOMAIN calls :
       /\ i < j /\ j < k /\ k < l
       /\ calls[i] = Call("readFile", opts.env)
       /\ calls[j] = Call("peer.readFile", opts.env)
       /\ calls[k] = Call("writeFile", opts.env)
       /\ calls[l] = Call("peer.writeFile", opts.env)
  /\ opts.key = "k" /\ peer.key = "p"
  /\ "p" \in DOMAIN local[opts.env]
  /\ "k" \notin DOMAIN local[opts.env]

\* the keys the first process sent in its remote write
MainPayload ==
  IF opts.action = "set"
    THEN (IF Sent("CreateSecret") THEN Doc1(opts.key, opts.value)
          ELSE RemoteUpdate(frame.existingSecrets, opts.key, opts.value))
    ELSE frame.merged

\* C20: remote writes are unconditional: when the second process read the
\* secret before the first process (set with target aws, or sync) wrote it and
\* updated it after, the keys the first wrote that the second had not read are
\* not in the final payload; when the second updated between the read and the
\* update of the first, its key is not in the final payload.
C20_RemoteLostUpdate ==
  (/\ opts.action \in {"set", "sync"} /\ Done /\ result = "ok"
   /\ frame.secretName = PeerSecretName
   /\ PeerDone /\ peer.target = "aws")
  => /\ (\E api \in {"UpdateSecret", "CreateSecret"} :
           /\ LastWrite({"UpdateSecret", "CreateSecret"}) = api
           /\ InOrder(Call("peer.GetSecretValue", PeerSecretName),
                      Call(api, frame.secretName),
                      Call("peer.UpdateSecret", PeerSecretName)))
        => \A key \in DOMAIN MainPayload :
             (key \notin DOMAIN peer.existingSecrets /\ key # peer.key)
             => key \notin DOMAIN Secret.payload
     /\ (/\ InOrder(Call("GetSecretValue", frame.secretName),
                    Call("peer.UpdateSecret", PeerSecretName),
                    Call("UpdateSecret", frame.secretName))
         /\ LastWrite({"UpdateSecret", "CreateSecret", "peer.UpdateSecret",
                       "peer.CreateSecret"}) = "UpdateSecret"
         /\ peer.key \notin DOMAIN MainPayload)
        => peer.key \notin DOMAIN Secret.payload

\* get, get, update, update on the secret: both ended ok, the first key is gone
C20_Witness ==
  /\ opts.action = "set" /\ Target(opts) = "aws" /\ Done /\ result = "ok"
  /\ PeerDone /\ peer.target = "aws" /\ frame.secretName = PeerSecretName
  /\ \E i, j, k, l \in DOMAIN calls :
       /\ i < j /\ j < k /\ k < l
       /\ calls[i] = Call("GetSecretValue", frame.secretName)
       /\ calls[j] = Call("peer.GetSecretValue", frame.secretName)
       /\ calls[k] = Call("UpdateSecret", frame.secretName)
       /\ calls[l] = Call("peer.UpdateSecret", frame.secretName)
  /\ opts.key = "k" /\ peer.key = "p"
  /\ Secret.state = "ACTIVE"
  /\ "p" \in DOMAIN Secret.payload
  /\ "k" \notin DOMAIN Secret.payload

\* C21: a secret deleted with force stays as it is under every later
\* operation, and no operation makes a secret that is pending deletion active.
C21_DeletedIsTerminal ==
  [][\A n \in SecretNames :
       /\ remote[n].state = "DELETED" => remote'[n] = remote[n]
       /\ remote[n].state = "PENDING_DELETION" => remote'[n].state # "ACTIVE"]_vars

\* C22: env list with the remote status is best effort: a failed probe does not
\* end the listing, every listed environment gets a present or absent tag, and
\* a failure other than not-found is reported for its environment, not shown
\* as absence.
C22_ProbeFailureReported ==
  [][pc = "envl_probe"
     => /\ \/ pc' = "envl_probe"
           \/ (pc' = "done" /\ result' = "ok"
                 /\ DOMAIN frame'.status = DOMAIN frame'.envs)
        /\ frame'.envs = frame.envs
        /\ \A e \in (DOMAIN frame'.status) \ (DOMAIN frame.status) :
             /\ frame'.caught = "" => frame'.status[e] = "[AWS ok]"
             /\ frame'.caught = "ResourceNotFoundException" => frame'.status[e] = "[AWS x]"
             /\ frame'.caught \notin {"", "ResourceNotFoundException"}
                => frame'.status[e] \notin {"[AWS ok]", "[AWS x]"}]_vars

\* C23: with no package name available, awsCommand and setConfig with target
\* aws or both raise an error with no remote request sent and no local
\* document written.
C23_NoPackageFailsFirst ==
  (/\ pc # "idle"
   /\ \/ cmd = "aws" /\ PackageName(opts) = ""
      \/ cmd = "set" /\ opts.key # "" /\ Target(opts) \in {"aws", "both"}
           /\ config.packageName = "")
  => /\ local = local0
     /\ remote = remote0
     /\ ~Wrote(opts.env)
     /\ \A i \in DOMAIN calls :
          calls[i][1] \notin {"GetSecretValue", "CreateSecret", "UpdateSecret",
                              "DeleteSecret"}
     /\ Done => (result = "error"
                 /\ thrown \in {"Package name not provided", "Package name required"})

\* the payload of the named secret when it exists, else the empty mapping
PayloadOf(name) ==
  IF SecretAt(name).state \in {"ACTIVE", "PENDING_DELETION"}
    THEN SecretAt(name).payload ELSE <<>>

\* C24: getConfig with source merged returns, for every key, the remote
\* secret's value if the remote defines it, else the value of the requested
\* environment's document if it defines it, else the default document's
\* value; an absent remote secret is read as the empty mapping and does not
\* fail the read.
C24_MergedPrecedence ==
  (cmd = "get" /\ Done /\ Source(opts) = "merged")
  => LET R == PayloadOf(SecretName(config.packageName, opts.env))
         E == LocalEntries(opts.env)
         D == LocalEntries("default")
     IN /\ thrown # "ResourceNotFoundException"
        /\ result = "ok"
           => /\ Keys(frame.result) = Keys(R) \cup Keys(E) \cup Keys(D)
              /\ \A k \in Keys(frame.result) :
                   Lookup(frame.result, k) =
                     IF k \in Keys(R) THEN Lookup(R, k)
                     ELSE IF k \in Keys(E) THEN Lookup(E, k)
                     ELSE Lookup(D, k)

\* the expected upper-snake-case names of the keys in use
ExpectedKey ==
  [k \in {"dbHost", "maxConn", "featureFlags", "APIKey", "debug", "dbOpts", "empty"} |->
     CASE k = "dbHost" -> "DB_HOST"
       [] k = "maxConn" -> "MAX_CONN"
       [] k = "featureFlags" -> "FEATURE_FLAGS"
       [] k = "APIKey" -> "_A_P_I_KEY"
       [] k = "debug" -> "DEBUG"
       [] k = "dbOpts" -> "DB_OPTS"
       [] OTHER -> "EMPTY"]

\* the expected text of the values in use
ExpectedValue(value) ==
  CASE value = Array(<<"1", "2">>) -> "[1,2]"
    [] value = Array(<<>>) -> "[]"
    [] value = Object(<<<<"a", "1">>>>) -> "{\"a\":1}"
    [] OTHER -> value.text

\* C25: the env format emits one KEY=value line per key, in document order,
\* KEY being the key with an underscore before every uppercase letter and then
\* uppercased, value the literal text of a scalar or the compact JSON text of
\* an object or array.
C25_EnvFormat ==
  (cmd = "get" /\ Done /\ result = "ok" /\ Format(opts) = "env")
  => /\ Len(frame.output) = Len(frame.result)
     /\ \A i \in DOMAIN frame.result :
          frame.output[i] =
            ExpectedKey[frame.result[i][1]] \o "=" \o ExpectedValue(frame.result[i][2])

C25_Witness ==
  /\ cmd = "get" /\ Done /\ result = "ok" /\ Format(opts) = "env"
  /\ frame.output =
       <<"DB_HOST=rds", "MAX_CONN=9", "FEATURE_FLAGS=[1,2]", "DB_OPTS={\"a\":1}">>

RemoteApis == {"GetSecretValue", "CreateSecret", "UpdateSecret", "DeleteSecret"}

\* the package identity an invocation acts under
Identity == IF opts.packageName # "" THEN opts.packageName ELSE config.packageName

Local0 == IF opts.env \in DOMAIN local0 THEN local0[opts.env] ELSE EmptyDoc

\* a document with one key set and every other key as it was
WithKey(doc, key, value) ==
  [k \in (DOMAIN doc) \cup {key} |-> IF k = key THEN value ELSE doc[k]]

\* C27: setConfig(key, value) with target local changes only that key: the
\* environment's document afterwards maps key to value and every other key
\* to the value it had, an absent document counting as empty; the remote
\* store and every other environment's document are unchanged.
C27_SetLocalOnlyKey ==
  (cmd = "set" /\ Target(opts) = "local" /\ Done /\ result = "ok")
  => /\ opts.env \in DOMAIN local
     /\ \A k \in (DOMAIN Local0) \ {opts.key} :
          k \in DOMAIN local[opts.env] /\ local[opts.env][k] = Local0[k]
     /\ DOMAIN local[opts.env] = (DOMAIN Local0) \cup {opts.key}
     /\ local[opts.env][opts.key] \in {opts.value, ParseValue(opts.value)}
     /\ remote = remote0
     /\ \A e \in (DOMAIN local0) \ {opts.env} : e \in DOMAIN local /\ local[e] = local0[e]

\* C28: setConfig(key, value) with target aws creates or updates one key: an
\* existing secret keeps every other key and maps key to value, a missing
\* secret is created with exactly {key: value}, any other remote failure is
\* propagated with the remote unchanged, and the local documents are not
\* touched.
C28_SetAwsOneKey ==
  (cmd = "set" /\ Target(opts) = "aws" /\ config.packageName # "" /\ Done)
  => /\ local = local0
     /\ ~Wrote(opts.env)
     /\ OthersUntouched
     /\ result = "ok" /\ Secret0.state = "ACTIVE"
        => Secret.state = "ACTIVE"
           /\ Secret.payload = WithKey(Secret0.payload, opts.key, opts.value)
     /\ result = "ok" /\ Secret0.state \in {"ABSENT", "DELETED"}
        => Secret.state = "ACTIVE"
           /\ Secret.payload = WithKey(EmptyDoc, opts.key, opts.value)
     /\ result = "error" => remote = remote0 /\ thrown \in RemoteErrors
     /\ result \in {"ok", "error"}

C28_Witness ==
  /\ cmd = "set" /\ Target(opts) = "aws" /\ Done /\ result = "ok"
  /\ Secret0.state = "ACTIVE" /\ opts.key \notin DOMAIN Secret0.payload
  /\ opts.value = "[1]"
  /\ DOMAIN Secret.payload = (DOMAIN Secret0.payload) \cup {opts.key}
  /\ Secret.payload # Secret0.payload

\* C29: after setConfig(key, value) with target both ends successfully, the
\* value under key in the environment's local document equals the value
\* under key in the secret's payload, for every value, strings that begin
\* with '{' or '[' included.
C29_BothSidesEqual ==
  (cmd = "set" /\ Target(opts) = "both" /\ Done /\ result = "ok")
  => /\ opts.key \in DOMAIN local[opts.env]
     /\ opts.key \in DOMAIN Secret.payload
     /\ local[opts.env][opts.key] = Secret.payload[opts.key]

\* a sync that ended successfully
SyncOk == cmd = "aws" /\ opts.action = "sync" /\ Done /\ result = "ok"

\* both sides held the same document when the invocation started
InSync0 ==
  /\ opts.env \in DOMAIN local0
  /\ Secret0.state = "ACTIVE"
  /\ local0[opts.env] = Secret0.payload

\* C30: sync is idempotent: a successful sync leaves both sides equal to the
\* merged document, and a successful sync, with either preference, of an
\* environment whose two sides are already equal leaves the local document
\* and the remote payload unchanged.
C30_SyncIdempotent ==
  SyncOk
  => /\ opts.env \in DOMAIN local
     /\ Secret.state = "ACTIVE"
     /\ local[opts.env] = Secret.payload
     /\ InSync0 => (local[opts.env] = local0[opts.env]
                    /\ Secret.payload = Secret0.payload)

\* C31: push for an environment that has no local document fails with an
\* error before any remote call: no create or update request is sent and the
\* remote secret, if any, is unchanged.
C31_PushWithoutDocumentFails ==
  (Running("push") /\ ~FileExists(opts.env))
  => /\ pc \in {"push_read", "done"}
     /\ \A i \in DOMAIN calls : calls[i][1] \notin RemoteApis
     /\ remote = remote0
     /\ local = local0
     /\ Done => (result = "error" /\ thrown = "ENOENT")

C31_Witness ==
  /\ Direct("push") /\ ~FileExists(opts.env) /\ Done
  /\ thrown = "ENOENT"
  /\ Secret0.state = "ACTIVE"
  /\ calls = <<Call("readFile", opts.env)>>

\* C32: a pull whose remote read fails, the secret being absent or the
\* request failing otherwise, raises that error without asking for a
\* confirmation and without creating or modifying the local document,
\* whatever override is.
C32_PullReadFailure ==
  (Running("pull") /\ pc # "pull_get")
  => \/ /\ Done /\ result = "error"
        /\ thrown \in ({GetReply(Secret0)} \cup Faults) \ {"ok"}
        /\ calls = <<Call("GetSecretValue", frame.secretName)>>
        /\ local = local0 /\ remote = remote0
     \/ /\ result # "error"
        /\ GetReply(Secret0) = "ok"
        /\ frame.awsConfig = Secret0.payload

C32_Witness ==
  /\ Running("pull") /\ Done /\ result = "error"
  /\ thrown = "CredentialsProviderError"
  /\ ~opts.override /\ FileExists(opts.env)
  /\ Secret0.state = "ACTIVE"

\* C33: when the remote write of a sync (the update, or the create that
\* follows a missing secret) fails, the local document already holds the
\* merged document and the remote payload is unchanged; within one sync the
\* local write comes before every remote write.
C33_SyncLocalFirst ==
  Running("sync")
  => /\ \A i \in DOMAIN calls :
          calls[i][1] \in {"UpdateSecret", "CreateSecret"}
          => \E j \in 1..(i - 1) : calls[j] = Call("writeFile", opts.env)
     /\ (Done /\ result = "error")
        => /\ calls[Len(calls)][1] \in {"UpdateSecret", "CreateSecret"}
           /\ thrown \in RemoteErrors
           /\ FileExists(opts.env)
           /\ local[opts.env] = Merge(Prefer(opts), frame.localConfig, frame.awsConfig)
           /\ remote = remote0

C33_Witness ==
  /\ Running("sync") /\ Done /\ result = "error"
  /\ Sent("CreateSecret")
  /\ opts.env \in DOMAIN local0
  /\ local[opts.env] # local0[opts.env]
  /\ remote = remote0

====
